---- MODULE Spec2Model ----
(***************************************************************************)
(* Point-of-sale ledger for sales events (pos_sys_v2.py).                  *)
(*                                                                         *)
(* POSDatabase is modelled by the three relations events, products and     *)
(* sales plus one operator per method; POSApp by its session fields        *)
(* (current event, cart, the cached product list, the history rows shown)  *)
(* and one action per button or callback.  A handler runs to completion on *)
(* the single Tk thread, so each action is one whole handler.              *)
(***************************************************************************)
EXTENDS Integers, Sequences, FiniteSets, TLC

\* ----- bounds of the model ------------------------------------------------
MaxEvents == 2
MaxProducts == 2
MaxSales == 2
MaxStock == 2
MaxPrice == 2
MaxQty == 1
MaxTime == 1

\* ----- input alphabets ----------------------------------------------------
\* "" is the empty text the dialogs reject.
ProductNames == {"a", "b"}
EventNames == <<"e", "f">>
ValidDates == {"2024-05-01"}
DateInputs == ValidDates \cup {"20240501"}
\* Prices and stocks typed in the add form; the negative ones are rejected.
PriceInputs == {-1, MaxPrice}
StockInputs == {-1, MaxStock}

\* Text comparison (ORDER BY name) on the names of the alphabet.
NameRank(n) == CASE n = "a" -> 1 [] n = "b" -> 2 [] OTHER -> 0

NameLess(m, n) == NameRank(m) < NameRank(n)

\* Python None for current_event_id (`not self.current_event_id`).
None == 0

\* get_recent_sales(event_id, limit=20)
HistoryLimit == 20

\* Labels of the status column of the history list (refresh_history:
\* "キャンセル" if cancelled else "有効") and the label cancel_selected_sale
\* compares against ("取消").
StatusCancelled == "kyanseru"
StatusValid == "yuukou"
StatusGuard == "torikeshi"

VARIABLES
    events,           \* events table: id (= index) -> [name, date, created_at]
    products,         \* products table: id -> [event_id, name, price, stock]
    product_seq,      \* AUTOINCREMENT counter of products (ids are never reused)
    sales,            \* sales table: id (= index) -> row
    now,              \* wall clock, one-second resolution
    current_event_id, \* POSApp.current_event_id
    event_data,       \* POSApp.event_data: combobox text -> event id
    product_data,     \* POSApp.product_data: listbox text -> product tuple
    cart_items,       \* POSApp.cart_items
    initial_stock,    \* history variable: stock each product was added with
    checked_stock     \* history variable: stock value add_to_cart accepted a line against

vars == <<events, products, product_seq, sales, now, current_event_id, event_data,
          product_data, cart_items, initial_stock, checked_stock>>

db_vars == <<events, products, product_seq, sales, initial_stock>>
ui_vars == <<current_event_id, event_data, product_data, cart_items, checked_stock>>

\* ----- generic helpers ----------------------------------------------------
Max(S) == CHOOSE x \in S : \A y \in S : y <= x

Min2(a, b) == IF a <= b THEN a ELSE b

Range(f) == {f[i] : i \in DOMAIN f}

\* All enumerations of the finite set S without repetition.
Perms(S) ==
    {f \in [1..Cardinality(S) -> S] : \A i, j \in 1..Cardinality(S) : i # j => f[i] # f[j]}

\* The orders an ORDER BY may return: Before(x, y) holds when the sort key puts
\* x strictly before y; rows with equal keys come in any order.
Orderings(S, Before(_, _)) ==
    {f \in Perms(S) : \A i, j \in 1..Cardinality(S) : i < j => ~Before(f[j], f[i])}

RECURSIVE SeqSum(_)
SeqSum(s) == IF s = <<>> THEN 0 ELSE Head(s) + SeqSum(Tail(s))

\* SQL SUM over the selected values: NULL (the empty tuple) on no rows.
SqlSum(vals) == IF vals = <<>> THEN <<>> ELSE <<SeqSum(vals)>>

\* SQL COALESCE(x, d)
Coalesce(x, d) == IF x = <<>> THEN d ELSE x[1]

\* The column `col` of a sequence of rows.
Column(rows, col) == [i \in DOMAIN rows |-> rows[i][col]]

\* ----- POSDatabase ----------------------------------------------------------

\* INSERT INTO events (name, date); created_at DEFAULT CURRENT_TIMESTAMP
create_event(E, name, date, t) ==
    Append(E, [name |-> name, date |-> date, created_at |-> t])

\* SELECT id, name, date FROM events ORDER BY created_at DESC
get_events(E) ==
    LET ords == Orderings(DOMAIN E, LAMBDA x, y : E[x].created_at > E[y].created_at)
    IN {[i \in DOMAIN o |-> [id |-> o[i], name |-> E[o[i]].name, date |-> E[o[i]].date]] :
            o \in ords}

\* INSERT INTO products (event_id, name, price, stock); id = lastrowid
add_product(P, seq, event_id, name, price, stock) ==
    [x \in DOMAIN P \cup {seq + 1} |->
        IF x = seq + 1
        THEN [event_id |-> event_id, name |-> name, price |-> price, stock |-> stock]
        ELSE P[x]]

\* SELECT COUNT(*) FROM sales WHERE product_id = ? AND cancelled = FALSE
LiveSalesCount(S, product_id) ==
    Cardinality({i \in DOMAIN S : S[i].product_id = product_id /\ ~S[i].cancelled})

\* delete_product without the check of the sales
delete_product_unguarded(P, S, product_id) ==
    [products |-> [x \in DOMAIN P \ {product_id} |-> P[x]], ret |-> product_id \in DOMAIN P]

\* delete_product: refuses when a non-cancelled sale references the product,
\* otherwise DELETE FROM products WHERE id = ? and rowcount > 0.
delete_product(P, S, product_id) ==
    IF LiveSalesCount(S, product_id) > 0
    THEN [products |-> P, ret |-> FALSE]
    ELSE [products |-> [x \in DOMAIN P \ {product_id} |-> P[x]],
          ret |-> product_id \in DOMAIN P]

\* SELECT id, name, price, stock FROM products WHERE event_id = ? ORDER BY name
get_products(P, event_id) ==
    LET ids == {x \in DOMAIN P : P[x].event_id = event_id}
        ords == Orderings(ids, LAMBDA x, y : NameLess(P[x].name, P[y].name))
    IN {[i \in DOMAIN o |->
            [id |-> o[i], name |-> P[o[i]].name, price |-> P[o[i]].price,
             stock |-> P[o[i]].stock]] : o \in ords}

\* INSERT INTO sales (event_id, product_id, quantity, total_price, sale_time);
\* cancelled DEFAULT 0.  Foreign keys are declared but not enforced.
record_sale(S, event_id, product_id, quantity, total_price, t) ==
    Append(S, [event_id |-> event_id, product_id |-> product_id, quantity |-> quantity,
               total_price |-> total_price, sale_time |-> t, cancelled |-> FALSE])

\* update_stock that writes nothing
update_stock_dropped(P, product_id, quantity_change) ==
    [products |-> P, ret |-> product_id \in DOMAIN P]

\* UPDATE products SET stock = stock + ? WHERE id = ?; returns rowcount > 0
update_stock(P, product_id, quantity_change) ==
    [products |-> [x \in DOMAIN P |->
                    IF x = product_id
                    THEN [P[x] EXCEPT !.stock = @ + quantity_change]
                    ELSE P[x]],
     ret |-> product_id \in DOMAIN P]

\* cancel_sale as a DELETE of the row
cancel_sale_deleting(S, sale_id) ==
    [sales |-> IF sale_id \in DOMAIN S
               THEN SubSeq(S, 1, sale_id - 1) \o SubSeq(S, sale_id + 1, Len(S))
               ELSE S,
     ret |-> sale_id \in DOMAIN S]

\* cancel_sale flipping the flag instead of setting it
cancel_sale_toggle(S, sale_id) ==
    [sales |-> [i \in DOMAIN S |->
                  IF i = sale_id THEN [S[i] EXCEPT !.cancelled = ~@] ELSE S[i]],
     ret |-> sale_id \in DOMAIN S]

\* UPDATE sales SET cancelled = TRUE WHERE id = ?; returns rowcount > 0
cancel_sale(S, sale_id) ==
    [sales |-> [i \in DOMAIN S |->
                  IF i = sale_id THEN [S[i] EXCEPT !.cancelled = TRUE] ELSE S[i]],
     ret |-> sale_id \in DOMAIN S]

\* get_recent_sales: sales of the event JOINed with their product (a sale whose
\* product row is gone drops out), ORDER BY sale_time DESC LIMIT ?
get_recent_sales(S, P, event_id, limit) ==
    LET ids == {i \in DOMAIN S : S[i].event_id = event_id /\ S[i].product_id \in DOMAIN P}
        ords == Orderings(ids, LAMBDA x, y : S[x].sale_time > S[y].sale_time)
    IN {[i \in 1..Min2(limit, Len(o)) |->
            [id |-> o[i], name |-> P[S[o[i]].product_id].name,
             quantity |-> S[o[i]].quantity, total_price |-> S[o[i]].total_price,
             sale_time |-> S[o[i]].sale_time, cancelled |-> S[o[i]].cancelled]] : o \in ords}

\* The sales of the event, the cancelled ones too
AllSalesOfEvent(S, event_id) == SelectSeq(S, LAMBDA s : s.event_id = event_id)

\* ... FROM sales WHERE event_id = ? AND cancelled = FALSE
LiveSalesOfEvent(S, event_id) ==
    SelectSeq(S, LAMBDA s : s.event_id = event_id /\ ~s.cancelled)

\* get_sales_summary: the three queries, in the order of the returned tuple
get_sales_summary(S, event_id) ==
    LET total_sales == Coalesce(SqlSum(Column(LiveSalesOfEvent(S, event_id), "total_price")), 0)
        total_quantity == Coalesce(SqlSum(Column(LiveSalesOfEvent(S, event_id), "quantity")), 0)
        transaction_count == Len(LiveSalesOfEvent(S, event_id))
    IN <<total_sales, total_quantity, transaction_count>>

\* The same as an inner join: a product without a live sale has no row
InnerJoinSales(P, S, event_id) ==
    [p \in {x \in DOMAIN P : /\ P[x].event_id = event_id
                             /\ \E i \in DOMAIN S : S[i].product_id = x /\ ~S[i].cancelled} |->
        SelectSeq(S, LAMBDA s : s.product_id = p /\ ~s.cancelled)]

\* products p LEFT JOIN sales s ON p.id = s.product_id AND s.cancelled = FALSE
\* WHERE p.event_id = ?: the sales matched to a product; a product without a
\* match keeps one row whose s columns are NULL.
LeftJoinSales(P, S, event_id) ==
    [p \in {x \in DOMAIN P : P[x].event_id = event_id} |->
        SelectSeq(S, LAMBDA s : s.product_id = p /\ ~s.cancelled)]

\* GROUP BY p.id, p.name, p.price with the two COALESCE(SUM(...), 0) columns
ProductSummaryGroups(P, S, event_id) ==
    LET J == LeftJoinSales(P, S, event_id)
    IN [p \in DOMAIN J |->
          [name |-> P[p].name,
           total_quantity |-> Coalesce(SqlSum(Column(J[p], "quantity")), 0),
           total_sales |-> Coalesce(SqlSum(Column(J[p], "total_price")), 0),
           price |-> P[p].price]]

\* get_product_sales_summary: ORDER BY total_sales DESC, p.name
get_product_sales_summary(P, S, event_id) ==
    LET G == ProductSummaryGroups(P, S, event_id)
        ords == Orderings(DOMAIN G,
                    LAMBDA x, y : \/ G[x].total_sales > G[y].total_sales
                                  \/ /\ G[x].total_sales = G[y].total_sales
                                     /\ NameLess(G[x].name, G[y].name))
    IN {[i \in DOMAIN o |-> G[o[i]]] : o \in ords}

\* ----- POSApp ---------------------------------------------------------------
\* The widgets that only display (history list, summary labels, product summary)
\* are recomputed from the tables by refresh_history, update_summary and
\* update_product_summary and hold no state of their own here.

\* f"{name} - ¥{price:,}", the listbox text of a product
DisplayText(name, price) == <<name, price>>

\* f"{name} ({date})", the combobox text of an event
EventText(name, date) == <<name, date>>

\* refresh_history: status = "キャンセル" if cancelled else "有効"
StatusText(cancelled) == IF cancelled THEN StatusCancelled ELSE StatusValid

\* load_events: self.event_data = {f"{event[1]} ({event[2]})": event[0] for event in events};
\* of two events with the same text the later one in the list stays.
EventDataOf(rows) ==
    [t \in {EventText(rows[i].name, rows[i].date) : i \in DOMAIN rows} |->
        rows[Max({i \in DOMAIN rows : EventText(rows[i].name, rows[i].date) = t})].id]

\* load_products: self.product_data[display_text] = product, in list order
ProductDataOf(rows) ==
    [t \in {DisplayText(rows[i].name, rows[i].price) : i \in DOMAIN rows} |->
        rows[Max({i \in DOMAIN rows : DisplayText(rows[i].name, rows[i].price) = t})]]

\* The session fields a handler rewrites, as one record.
Session ==
    [current_event_id |-> current_event_id, product_data |-> product_data,
     cart_items |-> cart_items, checked_stock |-> checked_stock]

\* The outcomes of load_products() for session u
load_products(u, P) ==
    IF u.current_event_id = None
    THEN {u}
    ELSE {[u EXCEPT !.product_data = ProductDataOf(rows)] :
            rows \in get_products(P, u.current_event_id)}

\* clear_cart()
clear_cart(u) == [u EXCEPT !.cart_items = <<>>, !.checked_stock = <<>>]

\* on_event_selected that does not reload the product list
on_event_selected_stale_list(u, ed, selected, P) ==
    IF selected \in DOMAIN ed
    THEN {clear_cart([u EXCEPT !.current_event_id = ed[selected]])}
    ELSE {u}

\* on_event_selected that leaves the cart as it is
on_event_selected_keeping_cart(u, ed, selected, P) ==
    IF selected \in DOMAIN ed
    THEN load_products([u EXCEPT !.current_event_id = ed[selected]], P)
    ELSE {u}

\* The outcomes of on_event_selected() with `selected` in the combobox:
\* load_products, refresh_history and update_summary (display), clear_cart
on_event_selected(u, ed, selected, P) ==
    IF selected \in DOMAIN ed
    THEN {clear_cart(u2) : u2 \in load_products([u EXCEPT !.current_event_id = ed[selected]], P)}
    ELSE {u}

\* Writes session u back to the fields.
SetSession(u) ==
    /\ current_event_id' = u.current_event_id
    /\ product_data' = u.product_data
    /\ cart_items' = u.cart_items
    /\ checked_stock' = u.checked_stock

Init ==
    /\ events = <<>>
    /\ products = <<>>
    /\ product_seq = 0
    /\ sales = <<>>
    /\ now = 0
    /\ current_event_id = None
    /\ event_data = <<>>
    /\ product_data = <<>>
    /\ cart_items = <<>>
    /\ initial_stock = <<>>
    /\ checked_stock = <<>>

\* The clock passes a second boundary (CURRENT_TIMESTAMP, get_current_time).
Tick ==
    /\ now < MaxTime
    /\ now' = now + 1
    /\ UNCHANGED <<db_vars, ui_vars>>

\* create_new_event with the dialog filled in as (name, date).  EventDialog
\* yields no result for an empty name or a date strptime rejects.
CreateNewEvent(name, date) ==
    IF name = "" \/ date \notin ValidDates
    THEN UNCHANGED vars
    ELSE /\ Len(events) < MaxEvents
         /\ events' = create_event(events, name, date, now)
         /\ \E rows \in get_events(events') :
              /\ event_data' = EventDataOf(rows)
              \* load_events selects event_list[0], then the new text is selected
              /\ \E u1 \in on_event_selected(Session, event_data',
                                EventText(rows[1].name, rows[1].date), products) :
                 \E u2 \in on_event_selected(u1, event_data', EventText(name, date), products) :
                    SetSession(u2)
         /\ UNCHANGED <<products, product_seq, sales, initial_stock, now>>

\* <<ComboboxSelected>> on the entry `selected` of the combobox
SelectEvent(selected) ==
    /\ selected \in DOMAIN event_data
    /\ \E u \in on_event_selected(Session, event_data, selected, products) : SetSession(u)
    /\ UNCHANGED <<db_vars, event_data, now>>

\* manage_products, one product entered in the dialog's add form.  The list of
\* the main window is reloaded afterwards or not (manage_products reloads on
\* dialog.result; the dialog's constructor goes on to build a button in the
\* closed window after wait_window returns, so the reload can be skipped).
AddProduct(name, price, stock) ==
    /\ current_event_id # None
    /\ IF name = "" \/ price < 0 \/ stock < 0
       THEN UNCHANGED vars
       ELSE /\ product_seq < MaxProducts
            /\ products' = add_product(products, product_seq, current_event_id, name, price, stock)
            /\ product_seq' = product_seq + 1
            /\ initial_stock' = [x \in DOMAIN initial_stock \cup {product_seq'} |->
                                   IF x = product_seq' THEN stock ELSE initial_stock[x]]
            /\ \E u \in {Session} \cup load_products(Session, products') : SetSession(u)
            /\ UNCHANGED <<events, sales, event_data, now>>

\* delete_product(product_id) for any id.  (The dialog's delete button is built
\* after the dialog has closed, so no handler of the windows reaches it and no
\* list is reloaded.)
DeleteProduct(product_id) ==
    /\ products' = delete_product(products, sales, product_id).products
    /\ UNCHANGED <<events, product_seq, sales, initial_stock, ui_vars, now>>

\* sum(item[3] for item in self.cart_items if item[0] == product_id)
CartQty(items, product_id) ==
    SeqSum(Column(SelectSeq(items, LAMBDA it : it.product_id = product_id), "quantity"))

\* add_to_cart appending a line whatever the cart holds
AppendLine(items, product_id, name, price, quantity) ==
    Append(items, [product_id |-> product_id, name |-> name, price |-> price,
                   quantity |-> quantity])

\* add_to_cart, lines 598-607: the first line of the product gets the summed
\* quantity; without one the new line is appended.
MergeLine(items, product_id, name, price, quantity) ==
    IF \E i \in DOMAIN items : items[i].product_id = product_id
    THEN LET i == CHOOSE k \in DOMAIN items :
                    /\ items[k].product_id = product_id
                    /\ \A j \in 1..(k - 1) : items[j].product_id # product_id
         IN [items EXCEPT ![i] = [product_id |-> product_id, name |-> name, price |-> price,
                                  quantity |-> items[i].quantity + quantity]]
    ELSE Append(items, [product_id |-> product_id, name |-> name, price |-> price,
                        quantity |-> quantity])

\* The stock check without the quantity already in the cart
AddRejectedIgnoringStaged(items, stock, product_id, quantity) ==
    \/ quantity <= 0
    \/ quantity > stock

\* add_to_cart: is the request turned down (lines 584-596)?
AddRejected(items, stock, product_id, quantity) ==
    \/ quantity <= 0
    \/ CartQty(items, product_id) + quantity > stock

\* add_to_cart with `selected` picked in the product listbox and `quantity` typed
AddToCart(selected, quantity) ==
    /\ selected \in DOMAIN product_data
    /\ LET p == product_data[selected]
       IN IF AddRejected(cart_items, p.stock, p.id, quantity)
          THEN UNCHANGED <<cart_items, checked_stock>>
          ELSE /\ cart_items' = MergeLine(cart_items, p.id, p.name, p.price, quantity)
               /\ checked_stock' = [x \in DOMAIN checked_stock \cup {p.id} |->
                                      IF x = p.id THEN p.stock ELSE checked_stock[x]]
    /\ UNCHANGED <<db_vars, current_event_id, event_data, product_data, now>>

\* remove_from_cart, line 621: every line carrying the name shown in row i
remove_line(items, i) == SelectSeq(items, LAMBDA it : it.name # items[i].name)

\* remove_from_cart with row i of the cart list selected
RemoveFromCart(i) ==
    /\ i \in DOMAIN cart_items
    /\ cart_items' = remove_line(cart_items, i)
    /\ checked_stock' = [x \in {cart_items'[k].product_id : k \in DOMAIN cart_items'} |->
                            checked_stock[x]]
    /\ UNCHANGED <<db_vars, current_event_id, event_data, product_data, now>>

\* clear_cart from the button
ClearCart ==
    /\ SetSession(clear_cart(Session))
    /\ UNCHANGED <<db_vars, event_data, now>>

\* checkout, lines 660-664: the loop over the cart, of which the first k
\* database calls return and call k + 1 raises.  Each call commits on its own.
RECURSIVE CheckoutLoop(_, _, _, _, _, _)
CheckoutLoop(S, P, items, event_id, t, k) ==
    IF items = <<>> \/ k = 0
    THEN [sales |-> S, products |-> P]
    ELSE LET it == Head(items)
             total_price == it.price * it.quantity
             S1 == record_sale(S, event_id, it.product_id, it.quantity, total_price, t)
         IN IF k = 1
            THEN [sales |-> S1, products |-> P]
            ELSE CheckoutLoop(S1, update_stock(P, it.product_id, -it.quantity).products,
                              Tail(items), event_id, t, k - 2)

\* checkout; `confirm` is the answer to askyesno, k the number of database
\* calls that return before one raises (2 * len(cart_items): none raises).
Checkout(confirm, k) ==
    IF current_event_id = None \/ cart_items = <<>> \/ ~confirm
    THEN /\ k = 0
         /\ UNCHANGED vars
    ELSE /\ k \in 0..(2 * Len(cart_items))
         /\ Len(sales) + ((k + 1) \div 2) <= MaxSales
         /\ LET r == CheckoutLoop(sales, products, cart_items, current_event_id, now, k)
            IN /\ sales' = r.sales
               /\ products' = r.products
               /\ IF k = 2 * Len(cart_items)
                  THEN \E u \in load_products(clear_cart(Session), products') : SetSession(u)
                  ELSE UNCHANGED <<current_event_id, product_data, cart_items, checked_stock>>
         /\ UNCHANGED <<events, product_seq, initial_stock, event_data, now>>

\* The rows the history list can hold: sales of the current event, with the
\* status label of the time the list was filled.
HistoryRows ==
    {[id |-> i, status |-> StatusText(c)] : i \in 1..MaxSales, c \in BOOLEAN}

\* cancel_selected_sale with `row` of the history list selected and `confirm`
\* the answer to askyesno
CancelSelectedSale(row, confirm) ==
    /\ current_event_id # None
    /\ row.id \in DOMAIN sales
    /\ sales[row.id].event_id = current_event_id
    /\ row.status \in {StatusText(FALSE), StatusText(sales[row.id].cancelled)}
    /\ IF row.status = StatusGuard \/ ~confirm
       THEN UNCHANGED vars
       ELSE /\ sales' = cancel_sale(sales, row.id).sales
            /\ UNCHANGED <<events, products, product_seq, initial_stock, ui_vars, now>>

\* cancel_sale(sale_id) giving the quantity of a live sale back to the stock
CancelSaleRestoringStock(sale_id) ==
    /\ sales' = cancel_sale(sales, sale_id).sales
    /\ products' = IF sale_id \in DOMAIN sales /\ ~sales[sale_id].cancelled
                   THEN update_stock(products, sales[sale_id].product_id,
                                     sales[sale_id].quantity).products
                   ELSE products
    /\ UNCHANGED <<events, product_seq, initial_stock, ui_vars, now>>

\* cancel_sale(sale_id) for any id
CancelSale(sale_id) ==
    /\ sales' = cancel_sale(sales, sale_id).sales
    /\ UNCHANGED <<events, products, product_seq, initial_stock, ui_vars, now>>

\* The names typed for a new event: one already in use or the first unused one
\* of EventNames (event names are only ever compared for equality), or none.
EventNameInputs ==
    LET used == {events[i].name : i \in DOMAIN events}
        free == {k \in DOMAIN EventNames : EventNames[k] \notin used}
    IN used \cup {EventNames[k] : k \in {j \in free : \A m \in free : j <= m}} \cup {""}

\* The texts a combobox or listbox entry can carry.
EventTexts == {EventText(n, d) : n \in Range(EventNames), d \in ValidDates}
ProductTexts == {DisplayText(n, p) : n \in ProductNames, p \in PriceInputs}

\* Every operation; the clock stands still.
Next ==
    \/ \E name \in EventNameInputs, date \in DateInputs : CreateNewEvent(name, date)
    \/ \E selected \in EventTexts : SelectEvent(selected)
    \/ \E name \in ProductNames \cup {""}, price \in PriceInputs, stock \in StockInputs :
          AddProduct(name, price, stock)
    \/ \E product_id \in 1..MaxProducts : DeleteProduct(product_id)
    \/ \E selected \in ProductTexts, quantity \in 0..MaxQty : AddToCart(selected, quantity)
    \/ \E i \in 1..MaxProducts : RemoveFromCart(i)
    \/ ClearCart
    \/ \E confirm \in BOOLEAN, k \in 0..(2 * MaxProducts) : Checkout(confirm, k)
    \/ \E row \in HistoryRows, confirm \in BOOLEAN : CancelSelectedSale(row, confirm)
    \/ \E sale_id \in 1..MaxSales : CancelSale(sale_id)

Spec == Init /\ [][Next]_vars

\* The same with the clock running.
NextClock == Next \/ Tick

SpecClock == Init /\ [][NextClock]_vars

\* ----- properties -----------------------------------------------------------

RECURSIVE SetSum(_, _)
SetSum(ids, f) ==
    IF ids = {} THEN 0
    ELSE LET x == CHOOSE y \in ids : TRUE IN f[x] + SetSum(ids \ {x}, f)

Quantities == [i \in DOMAIN sales |-> sales[i].quantity]
TotalPrices == [i \in DOMAIN sales |-> sales[i].total_price]

\* C1: every existing product's stock quantity is >= 0 in every reachable state.
StockNeverNegative == \A p \in DOMAIN products : products[p].stock >= 0

\* C2: cancelSale returns true exactly when it turns an existing uncancelled sale
\* into a cancelled one, and false for a missing or already cancelled sale.
CancelReturnsFalseUnlessLive ==
    \A sale_id \in 1..MaxSales :
        cancel_sale(sales, sale_id).ret
            <=> (sale_id \in DOMAIN sales /\ ~sales[sale_id].cancelled)

\* C3: for every existing product, initial stock minus current stock equals the
\* summed quantity of all sales (cancelled or not) that reference it.
SaleStockPairAtomic ==
    \A p \in DOMAIN products :
        initial_stock[p] - products[p].stock
            = SetSum({i \in DOMAIN sales : sales[i].product_id = p}, Quantities)

\* C4 as stated: deleteProduct returns false when a non-cancelled sale references
\* the product and true in every other case.
DeleteTrueUnlessLiveSale ==
    \A product_id \in 1..MaxProducts :
        delete_product(products, sales, product_id).ret
            <=> (LiveSalesCount(sales, product_id) = 0)

\* C4, amended: deleteProduct returns true exactly when the product row exists
\* and no non-cancelled sale references it; a step of it that returns true
\* removes that row and nothing else, one that returns false leaves the
\* products as they were, and neither touches the sales.
DeleteGuardedByLiveSales ==
    [][\A product_id \in 1..MaxProducts :
          DeleteProduct(product_id) =>
             LET ret == delete_product(products, sales, product_id).ret
             IN /\ ret <=> (product_id \in DOMAIN products
                             /\ LiveSalesCount(sales, product_id) = 0)
                /\ ret => /\ DOMAIN products' = DOMAIN products \ {product_id}
                          /\ \A x \in DOMAIN products' : products'[x] = products[x]
                /\ ~ret => products' = products
                /\ sales' = sales]_vars

\* A product was deleted while another one, with a live sale, is kept.
DeleteWitness ==
    /\ \E x \in 1..product_seq : x \notin DOMAIN products
    /\ \E x \in DOMAIN products : LiveSalesCount(sales, x) > 0

\* The sales without row sale_id.
WithoutSale(S, sale_id) ==
    [i \in 1..(Len(S) - 1) |-> IF i < sale_id THEN S[i] ELSE S[i + 1]]

\* C5: after cancelSale on a sale, salesSummary and productSalesSummary of every
\* event are what they would be without that sale, and a second cancelSale on it
\* leaves both as they were after the first.
CancelIdempotentOnTotals ==
    \A sale_id \in DOMAIN sales : \A e \in 1..MaxEvents :
        LET once == cancel_sale(sales, sale_id).sales
            twice == cancel_sale(once, sale_id).sales
            gone == WithoutSale(sales, sale_id)
        IN /\ get_sales_summary(once, e) = get_sales_summary(gone, e)
           /\ get_product_sales_summary(products, once, e)
                 = get_product_sales_summary(products, gone, e)
           /\ get_sales_summary(twice, e) = get_sales_summary(once, e)
           /\ get_product_sales_summary(products, twice, e)
                 = get_product_sales_summary(products, once, e)

\* A cancelled sale next to a live one of the same event and product.
CancelTotalsWitness ==
    \E i, j \in DOMAIN sales :
        /\ sales[i].cancelled /\ ~sales[j].cancelled
        /\ sales[i].event_id = sales[j].event_id
        /\ sales[i].product_id = sales[j].product_id
        /\ sales[i].product_id \in DOMAIN products

\* C6: a cancelSale step sets the cancelled flag of the targeted sale and changes
\* nothing else: no stock, no other field of that sale, no other sale, no event,
\* no cart line.
CancelChangesOnlyTheFlag ==
    [][\A sale_id \in 1..MaxSales :
          (CancelSale(sale_id)
             \/ \E row \in HistoryRows : row.id = sale_id /\ CancelSelectedSale(row, TRUE)) =>
             /\ products' = products
             /\ events' = events
             /\ cart_items' = cart_items
             /\ DOMAIN sales' = DOMAIN sales
             /\ \A i \in DOMAIN sales :
                   sales'[i] = IF i = sale_id
                               THEN [sales[i] EXCEPT !.cancelled = TRUE]
                               ELSE sales[i]]_vars

\* A sale is cancelled, a live one stands beside it, and the stock of the
\* cancelled sale's product is still short of what was added.
CancelFrameWitness ==
    \E i, j \in DOMAIN sales :
        /\ sales[i].cancelled /\ ~sales[j].cancelled
        /\ sales[i].product_id \in DOMAIN products
        /\ products[sales[i].product_id].stock < initial_stock[sales[i].product_id]
        /\ cart_items # <<>>

\* C7: salesSummary(e) is (sum of total_price, sum of quantity, count) over the
\* sales of event e that are not cancelled, (0, 0, 0) without any.
SummaryOverLiveSalesOfEvent ==
    \A e \in 1..MaxEvents :
        LET live == {i \in DOMAIN sales : sales[i].event_id = e /\ sales[i].cancelled = FALSE}
        IN get_sales_summary(sales, e)
              = <<SetSum(live, TotalPrices), SetSum(live, Quantities), Cardinality(live)>>

\* An event with a cancelled sale while another event has a live one.
SummaryWitness ==
    \E i, j \in DOMAIN sales :
        /\ sales[i].cancelled /\ ~sales[j].cancelled
        /\ sales[i].event_id # sales[j].event_id

\* C8: productSalesSummary(e) has one row per existing product of event e, the
\* products without a live sale included with 0 and 0; each row carries the sums
\* over the product's non-cancelled sales; the rows descend by revenue and, on
\* equal revenue, ascend by name.
ProductSummaryRowsAndOrder ==
    \A e \in 1..MaxEvents :
        \A rows \in get_product_sales_summary(products, sales, e) :
            LET ids == {x \in DOMAIN products : products[x].event_id = e}
                live(x) == {i \in DOMAIN sales : sales[i].product_id = x /\ ~sales[i].cancelled}
            IN /\ \E o \in Perms(ids) :
                     /\ DOMAIN rows = DOMAIN o
                     /\ \A k \in DOMAIN o :
                           rows[k] = [name |-> products[o[k]].name,
                                      total_quantity |-> SetSum(live(o[k]), Quantities),
                                      total_sales |-> SetSum(live(o[k]), TotalPrices),
                                      price |-> products[o[k]].price]
               /\ \A k, m \in DOMAIN rows :
                     k < m => \/ rows[k].total_sales > rows[m].total_sales
                              \/ /\ rows[k].total_sales = rows[m].total_sales
                                 /\ ~NameLess(rows[m].name, rows[k].name)

\* An event with a product that sold and a product without a live sale.
ProductSummaryWitness ==
    \E x, y \in DOMAIN products :
        /\ products[x].event_id = products[y].event_id
        /\ LiveSalesCount(sales, x) > 0
        /\ LiveSalesCount(sales, y) = 0
        /\ NameLess(products[y].name, products[x].name)

\* C9: the cart never holds two lines of one product; an accepted addLine for a
\* product already in the cart adds the quantity to that line, which keeps its
\* place, and adds no line.
CartOneLinePerProduct ==
    /\ [](\A i, j \in DOMAIN cart_items :
            i # j => cart_items[i].product_id # cart_items[j].product_id)
    /\ [][\A selected \in ProductTexts, quantity \in 0..MaxQty :
            (/\ AddToCart(selected, quantity)
             /\ ~AddRejected(cart_items, product_data[selected].stock,
                             product_data[selected].id, quantity)
             /\ \E i \in DOMAIN cart_items :
                   cart_items[i].product_id = product_data[selected].id) =>
               /\ DOMAIN cart_items' = DOMAIN cart_items
               /\ \A i \in DOMAIN cart_items :
                     /\ cart_items'[i].product_id = cart_items[i].product_id
                     /\ cart_items'[i].quantity
                           = cart_items[i].quantity
                               + (IF cart_items[i].product_id = product_data[selected].id
                                  THEN quantity ELSE 0)]_vars

\* A line that two additions built, behind a line of another product.
CartMergeWitness ==
    /\ Len(cart_items) = 2
    /\ cart_items[1].quantity > MaxQty

\* C10: addLine with quantity <= 0, or with the staged quantity of the product
\* plus the requested one above the stock it is given, leaves the cart as it
\* was; every cart line has a positive quantity of at most the stock value its
\* last accepted addition was checked against.
AddLineWithinCheckedStock ==
    /\ [](\A i \in DOMAIN cart_items :
            /\ cart_items[i].quantity > 0
            /\ cart_items[i].product_id \in DOMAIN checked_stock
            /\ cart_items[i].quantity <= checked_stock[cart_items[i].product_id])
    /\ [][\A selected \in ProductTexts, quantity \in 0..MaxQty :
            (/\ AddToCart(selected, quantity)
             /\ \/ quantity <= 0
                \/ CartQty(cart_items, product_data[selected].id) + quantity
                      > product_data[selected].stock) =>
               cart_items' = cart_items]_vars

\* A line filled up to the stock it was checked against: one more is refused.
AddLineWitness ==
    \E i \in DOMAIN cart_items :
        /\ cart_items[i].quantity = checked_stock[cart_items[i].product_id]
        /\ \E t \in DOMAIN product_data :
              /\ product_data[t].id = cart_items[i].product_id
              /\ AddRejected(cart_items, product_data[t].stock, product_data[t].id, 1)

\* C11: a checkout of a non-empty cart in which every call returns appends, in
\* cart order, one uncancelled sale per line, stamped with the current event,
\* with the line's quantity and price * quantity as total price, takes the
\* line's quantity off the stock of each staged product, changes no other
\* product and no earlier sale, and empties the cart; a sale is added or a
\* stock changed only with an event selected and a non-empty cart.
CheckoutRecordsEveryLine ==
    /\ [][\A k \in 0..(2 * MaxProducts) :
            (/\ current_event_id # None
             /\ cart_items # <<>>
             /\ k = 2 * Len(cart_items)
             /\ Checkout(TRUE, k)) =>
               /\ Len(sales') = Len(sales) + Len(cart_items)
               /\ \A i \in DOMAIN sales : sales'[i] = sales[i]
               /\ \A j \in DOMAIN cart_items :
                     sales'[Len(sales) + j]
                        = [event_id |-> current_event_id,
                           product_id |-> cart_items[j].product_id,
                           quantity |-> cart_items[j].quantity,
                           total_price |-> cart_items[j].price * cart_items[j].quantity,
                           sale_time |-> now,
                           cancelled |-> FALSE]
               /\ DOMAIN products' = DOMAIN products
               /\ \A p \in DOMAIN products :
                     products'[p]
                        = [products[p] EXCEPT !.stock = @ - CartQty(cart_items, p)]
               /\ cart_items' = <<>>]_vars
    /\ [][(\/ Len(sales') # Len(sales)
           \/ \E p \in DOMAIN products \cap DOMAIN products' :
                 products'[p].stock # products[p].stock) =>
             (current_event_id # None /\ cart_items # <<>>)]_vars

\* Two lines went through one checkout: two sales of two products of one
\* event, both stocks lowered, and the cart empty.
CheckoutWitness ==
    /\ Len(sales) = 2
    /\ sales[1].product_id # sales[2].product_id
    /\ sales[1].event_id = sales[2].event_id
    /\ \A i \in DOMAIN sales :
          /\ sales[i].product_id \in DOMAIN products
          /\ products[sales[i].product_id].stock
                = initial_stock[sales[i].product_id] - sales[i].quantity
    /\ cart_items = <<>>
    /\ current_event_id = sales[1].event_id

\* C12: the cart is empty after every creation of an event, every selection of
\* an event, every clear and every checkout in which all calls return; no step
\* that changes the current event leaves a line in the cart, and every line of
\* the cart whose product exists is a product of the current event.
CartEmptiedOnEventSwitch ==
    /\ [](\A i \in DOMAIN cart_items :
            /\ current_event_id # None
            /\ cart_items[i].product_id \in DOMAIN products =>
                  products[cart_items[i].product_id].event_id = current_event_id)
    /\ [][(\/ current_event_id' # current_event_id
           \/ events' # events
           \/ \E selected \in EventTexts : SelectEvent(selected)
           \/ ClearCart
           \/ /\ current_event_id # None /\ cart_items # <<>>
              /\ Checkout(TRUE, 2 * Len(cart_items))) =>
             cart_items' = <<>>]_vars

\* Both events have products, the first event is the current one again and a
\* line is staged.
CartSwitchWitness ==
    /\ Len(events) = 2
    /\ current_event_id = 1
    /\ \A e \in 1..2 : \E p \in DOMAIN products : products[p].event_id = e
    /\ cart_items # <<>>

\* C13: removeLine for the product of cart row i drops that product's line and
\* leaves every other line, one of a different product with the same name
\* included, unchanged in quantity and order.
RemoveLineOnlyThatProduct ==
    [][\A i \in 1..MaxProducts :
          RemoveFromCart(i) =>
             cart_items' = SelectSeq(cart_items,
                              LAMBDA it : it.product_id # cart_items[i].product_id)]_vars

\* C14: after createEvent, listEvents returns the event just created first,
\* also when an earlier event carries the same one-second creation timestamp.
NewEventListedFirst ==
    [][events' # events =>
          \A rows \in get_events(events') : rows[1].id = Len(events')]_vars

\* C15: recentSales(e, limit) returns at most limit sales, all of event e, with
\* a sale recorded later never after one recorded earlier (sale ids grow with
\* the order of recording), the lines of one checkout included, and the sales
\* left out are all older than the ones returned.
RecentSalesNewestFirst ==
    \A e \in 1..MaxEvents : \A limit \in {1, HistoryLimit} :
        \A rows \in get_recent_sales(sales, products, e, limit) :
            /\ Len(rows) <= limit
            /\ \A k \in DOMAIN rows : sales[rows[k].id].event_id = e
            /\ \A k, m \in DOMAIN rows : k < m => rows[k].id > rows[m].id
            /\ \A i \in DOMAIN sales :
                  (/\ sales[i].event_id = e
                   /\ sales[i].product_id \in DOMAIN products
                   /\ \A k \in DOMAIN rows : rows[k].id # i) =>
                      \A k \in DOMAIN rows : rows[k].id > i

\* C16: no step deletes a sale, changes the event, product, quantity, total
\* price or time of a sale, or turns a cancelled flag from true back to false.
SaleRecordsMonotone ==
    [][/\ Len(sales') >= Len(sales)
       /\ \A i \in DOMAIN sales :
             /\ sales'[i].event_id = sales[i].event_id
             /\ sales'[i].product_id = sales[i].product_id
             /\ sales'[i].quantity = sales[i].quantity
             /\ sales'[i].total_price = sales[i].total_price
             /\ sales'[i].sale_time = sales[i].sale_time
             /\ sales[i].cancelled => sales'[i].cancelled]_vars

\* A cancelled sale outlives its product, and a later sale stands live.
SaleMonotoneWitness ==
    /\ Len(sales) = 2
    /\ sales[1].cancelled
    /\ sales[1].product_id \notin DOMAIN products
    /\ ~sales[2].cancelled

\* C17: every sale, cancelled or not, references a product that exists.
EverySaleHasItsProduct ==
    \A i \in DOMAIN sales : sales[i].product_id \in DOMAIN products

\* C18: for every event, the revenues of the rows of productSalesSummary add up
\* to the total revenue of salesSummary, and the quantities to its total
\* quantity.
SummariesAgree ==
    \A e \in 1..MaxEvents :
        \A rows \in get_product_sales_summary(products, sales, e) :
            /\ SeqSum(Column(rows, "total_sales")) = get_sales_summary(sales, e)[1]
            /\ SeqSum(Column(rows, "total_quantity")) = get_sales_summary(sales, e)[2]

\* C19: every sale whose product exists is recorded under the event that owns
\* the product.
SaleEventIsProductEvent ==
    \A i \in DOMAIN sales :
        sales[i].product_id \in DOMAIN products =>
            sales[i].event_id = products[sales[i].product_id].event_id

\* Both events have a sale of a product of their own.
SaleEventWitness ==
    \E i, j \in DOMAIN sales :
        /\ sales[i].event_id # sales[j].event_id
        /\ sales[i].product_id \in DOMAIN products
        /\ sales[j].product_id \in DOMAIN products

====
